---------------------------- MODULE Spec2Model ----------------------------
(***************************************************************************)
(* A model of the simplexpr evaluator (src/src/eval.rs): the expression    *)
(* tree operations map_terminals_into, resolve_refs, var_refs, eval and    *)
(* eval_no_vars, and the built-in function dispatcher call_expr_function.  *)
(*                                                                         *)
(* Strings are sequences of one-character strings, so that parsing,        *)
(* formatting, concatenation and regex replacement are computed and not    *)
(* assumed.  A source span is a natural number naming the node.            *)
(***************************************************************************)
EXTENDS Integers, Sequences, FiniteSets, TLC

VARIABLES expr, env, fnSource, pc, value, tree, refs, fsel

vars == <<expr, env, fnSource, pc, value, tree, refs, fsel>>

-----------------------------------------------------------------------------
(* Bounds of the model.                                                    *)

\* longest argument list of a generated FunctionCall
MaxArgs == 3
\* longest replacement string of a generated replace() call
MaxRepLen == 2
\* largest array index literal generated for JsonAccess (indices run from
\* -MaxIndex to MaxIndex)
MaxIndex == 3

-----------------------------------------------------------------------------
(* Characters and strings.                                                 *)

Digits == <<"0", "1", "2", "3", "4", "5", "6", "7", "8", "9">>

IsDigit(c) == \E i \in 1..10 : Digits[i] = c

DigitVal(c) == (CHOOSE i \in 1..10 : Digits[i] = c) - 1

AllDigits(s) == \A i \in 1..Len(s) : IsDigit(s[i])

RECURSIVE ParseNat(_)
ParseNat(s) ==
    IF s = <<>> THEN 0
    ELSE 10 * ParseNat(SubSeq(s, 1, Len(s) - 1)) + DigitVal(s[Len(s)])

RECURSIVE FmtNat(_)
FmtNat(n) ==
    IF n < 10 THEN <<Digits[n + 1]>>
    ELSE FmtNat(n \div 10) \o <<Digits[(n % 10) + 1]>>

RECURSIVE Zeros(_)
Zeros(k) == IF k <= 0 THEN <<>> ELSE <<"0">> \o Zeros(k - 1)

\* position of the first occurrence of character c in s, 0 when absent
FirstIndex(s, c) ==
    IF \E i \in 1..Len(s) : s[i] = c
    THEN CHOOSE i \in 1..Len(s) : s[i] = c /\ \A j \in 1..(i - 1) : s[j] # c
    ELSE 0

\* the pieces of s between occurrences of character c (str::split)
RECURSIVE Split(_, _)
Split(s, c) ==
    LET i == FirstIndex(s, c) IN
    IF i = 0 THEN <<s>>
    ELSE <<SubSeq(s, 1, i - 1)>> \o Split(SubSeq(s, i + 1, Len(s)), c)

\* str::replace(from, to) for a one-character `from`
RECURSIVE StrReplaceChar(_, _, _)
StrReplaceChar(s, from, to) ==
    IF s = <<>> THEN <<>>
    ELSE (IF s[1] = from THEN to ELSE <<s[1]>>)
         \o StrReplaceChar(Tail(s), from, to)

S_true == <<"t", "r", "u", "e">>
S_false == <<"f", "a", "l", "s", "e">>
S_null == <<"n", "u", "l", "l">>
S_inf == <<"i", "n", "f">>
S_NaN == <<"N", "a", "N">>
S_round == <<"r", "o", "u", "n", "d">>
S_replace == <<"r", "e", "p", "l", "a", "c", "e">>

-----------------------------------------------------------------------------
(* Span and DynVal (crate::ast::Span, crate::dynval::DynVal): a value is   *)
(* its canonical string and an optional span.                              *)

\* Option<Span>::None
NoSpan == 0 - 1

DynVal(s, span) == [s |-> s, span |-> span]

\* DynVal::at: the same string, tagged with the span
At(v, span) == [v EXCEPT !.span = span]

\* PartialEq for DynVal compares the strings only
DynEq(a, b) == a.s = b.s

\* DynVal::from(bool), DynVal::from(String): a fresh value without a span
FromBool(b) == DynVal(IF b THEN S_true ELSE S_false, NoSpan)

FromString(s) == DynVal(s, NoSpan)

\* DynVal::as_bool: str::parse::<bool> accepts exactly "true" and "false"
IsBool(v) == v.s = S_true \/ v.s = S_false

AsBool(v) == v.s = S_true

\* DynVal::as_string never fails
AsString(v) == v.s

-----------------------------------------------------------------------------
(* f64.  A float is finite (sign and magnitude in halves, so that 0.5 and  *)
(* the signed zeros exist), infinite or NaN.  The generated expressions    *)
(* keep every finite result a multiple of one half.                        *)

Fin(neg, h) == [k |-> "fin", neg |-> neg, h |-> h]

Inf(neg) == [k |-> "inf", neg |-> neg, h |-> 0]

NaN == [k |-> "nan", neg |-> FALSE, h |-> 0]

\* the signed number of halves of a finite float
Halves(x) == IF x.neg THEN 0 - x.h ELSE x.h

FromHalves(n) == IF n < 0 THEN Fin(TRUE, 0 - n) ELSE Fin(FALSE, n)

\* [-]digits[.digits] with a fraction of zeros, or of 5 followed by zeros
IsDecimal(u) ==
    LET parts == Split(u, ".") IN
    /\ Len(parts) \in {1, 2}
    /\ AllDigits(parts[1])
    /\ Len(parts) = 2 =>
         /\ AllDigits(parts[2])
         /\ Len(parts[1]) + Len(parts[2]) > 0
         /\ \A i \in 2..Len(parts[2]) : parts[2][i] = "0"
         /\ parts[2] # <<>> => parts[2][1] \in {"0", "5"}
    /\ Len(parts) = 1 => parts[1] # <<>>

DecimalHalves(u) ==
    LET parts == Split(u, ".") IN
    2 * ParseNat(parts[1])
    + (IF Len(parts) = 2 /\ parts[2] # <<>> /\ parts[2][1] = "5" THEN 1 ELSE 0)

Unsigned(s) == IF s # <<>> /\ s[1] = "-" THEN Tail(s) ELSE s

Negative(s) == s # <<>> /\ s[1] = "-"

\* DynVal::as_f64: str::parse::<f64>
IsF64(v) ==
    LET u == Unsigned(v.s) IN u = S_inf \/ u = S_NaN \/ IsDecimal(u)

AsF64(v) ==
    LET u == Unsigned(v.s) IN
    IF u = S_inf THEN Inf(Negative(v.s))
    ELSE IF u = S_NaN THEN NaN
    ELSE Fin(Negative(v.s), DecimalHalves(u))

RECURSIVE StripZeros(_)
StripZeros(s) ==
    IF Len(s) > 1 /\ s[1] = "0" THEN StripZeros(Tail(s)) ELSE s

\* the digits of 2^31 without the last one
I32Top == <<"2", "1", "4", "7", "4", "8", "3", "6", "4">>

\* DynVal::as_i32: str::parse::<i32>, [-]digits within the i32 range
IsI32(v) ==
    LET u == Unsigned(v.s)
        d == StripZeros(u)
    IN  /\ u # <<>>
        /\ AllDigits(u)
        /\ \/ Len(d) <= 9
           \/ /\ Len(d) = 10
              /\ \/ ParseNat(SubSeq(d, 1, 9)) < ParseNat(I32Top)
                 \/ /\ SubSeq(d, 1, 9) = I32Top
                    /\ DigitVal(d[10]) <= (IF Negative(v.s) THEN 8 ELSE 7)

\* the digits read as a negative number, so that -2^31 is reached
RECURSIVE ParseNeg(_)
ParseNeg(s) ==
    IF s = <<>> THEN 0
    ELSE 10 * ParseNeg(SubSeq(s, 1, Len(s) - 1)) - DigitVal(s[Len(s)])

AsI32(v) ==
    LET u == Unsigned(v.s) IN
    IF Negative(v.s) THEN ParseNeg(u) ELSE ParseNat(u)

\* Display for f64, as used by DynVal::from(f64)
FmtF64(x) ==
    LET sign == IF x.neg THEN <<"-">> ELSE <<>> IN
    IF x.k = "nan" THEN S_NaN
    ELSE IF x.k = "inf" THEN sign \o S_inf
    ELSE sign \o FmtNat(x.h \div 2)
         \o (IF x.h % 2 = 1 THEN <<".", "5">> ELSE <<>>)

FromF64(x) == DynVal(FmtF64(x), NoSpan)

\* a + b
F64Add(x, y) ==
    IF x.k = "nan" \/ y.k = "nan" THEN NaN
    ELSE IF x.k = "inf" /\ y.k = "inf"
         THEN (IF x.neg = y.neg THEN x ELSE NaN)
    ELSE IF x.k = "inf" THEN x
    ELSE IF y.k = "inf" THEN y
    ELSE IF Halves(x) + Halves(y) = 0 THEN Fin(x.neg /\ y.neg, 0)
    ELSE FromHalves(Halves(x) + Halves(y))

F64Neg(x) == IF x.k = "nan" THEN NaN ELSE [x EXCEPT !.neg = ~x.neg]

\* a - b
F64Sub(x, y) == F64Add(x, F64Neg(y))

\* a * b (exact when one factor is a whole number, as every generated one is)
F64Mul(x, y) ==
    LET neg == (x.neg # y.neg) IN
    IF x.k = "nan" \/ y.k = "nan" THEN NaN
    ELSE IF x.k = "inf" \/ y.k = "inf"
         THEN (IF (x.k = "fin" /\ x.h = 0) \/ (y.k = "fin" /\ y.h = 0)
               THEN NaN ELSE Inf(neg))
    ELSE Fin(neg, (x.h * y.h) \div 2)

\* a / b (exact when the quotient is a multiple of one half): division by
\* zero gives an infinity or NaN, never a failure
F64Div(x, y) ==
    LET neg == (x.neg # y.neg) IN
    IF x.k = "nan" \/ y.k = "nan" THEN NaN
    ELSE IF x.k = "inf" THEN (IF y.k = "inf" THEN NaN ELSE Inf(neg))
    ELSE IF y.k = "inf" THEN Fin(neg, 0)
    ELSE IF y.h = 0 THEN (IF x.h = 0 THEN NaN ELSE Inf(neg))
    ELSE Fin(neg, (2 * x.h) \div y.h)

\* a % b: the remainder has the sign of the dividend
F64Rem(x, y) ==
    IF x.k = "nan" \/ y.k = "nan" \/ x.k = "inf" THEN NaN
    ELSE IF y.k = "inf" THEN x
    ELSE IF y.h = 0 THEN NaN
    ELSE Fin(x.neg, x.h % y.h)

\* a < b
F64Lt(x, y) ==
    IF x.k = "nan" \/ y.k = "nan" THEN FALSE
    ELSE IF x.k = "inf" THEN x.neg /\ ~(y.k = "inf" /\ y.neg)
    ELSE IF y.k = "inf" THEN ~y.neg
    ELSE Halves(x) < Halves(y)

\* format!("{:.1$}", num, digits): fixed point with `digits` fraction
\* digits, a tie rounded to the even neighbour
FmtFixed(x, digits) ==
    LET sign == IF x.neg THEN <<"-">> ELSE <<>>
        whole == x.h \div 2
        half == (x.h % 2 = 1)
        up == half /\ digits = 0 /\ whole % 2 = 1
    IN  IF x.k = "nan" THEN S_NaN
        ELSE IF x.k = "inf" THEN sign \o S_inf
        ELSE IF digits = 0 THEN sign \o FmtNat(IF up THEN whole + 1 ELSE whole)
        ELSE sign \o FmtNat(whole) \o <<".">>
             \o (IF half THEN <<"5">> ELSE <<"0">>) \o Zeros(digits - 1)

-----------------------------------------------------------------------------
(* JSON (serde_json::Value), for the values the model generates: scalars,  *)
(* arrays of scalars and objects whose members are scalars, written        *)
(* without white space; a JSON string holds no quote, comma or colon.      *)

Json(k, text, items, keys) ==
    [k |-> k, text |-> text, items |-> items, keys |-> keys]

JsonNull == Json("null", S_null, <<>>, <<>>)

JsonBad == Json("bad", <<>>, <<>>, <<>>)

\* a JSON number: -? int frac?, the int part without a leading zero
IsJsonNumber(s) ==
    LET parts == Split(Unsigned(s), ".") IN
    /\ Len(parts) \in {1, 2}
    /\ parts[1] # <<>>
    /\ AllDigits(parts[1])
    /\ Len(parts[1]) > 1 => parts[1][1] # "0"
    /\ Len(parts) = 2 => parts[2] # <<>> /\ AllDigits(parts[2])

IsJsonString(s) ==
    /\ Len(s) >= 2
    /\ s[1] = "\""
    /\ s[Len(s)] = "\""
    /\ \A i \in 2..(Len(s) - 1) : s[i] \notin {"\"", "\\", ",", ":"}

Inner(s) == SubSeq(s, 2, Len(s) - 1)

ParseJsonScalar(s) ==
    IF s = S_null THEN JsonNull
    ELSE IF s = S_true \/ s = S_false THEN Json("bool", s, <<>>, <<>>)
    ELSE IF IsJsonNumber(s) THEN Json("num", s, <<>>, <<>>)
    ELSE IF IsJsonString(s) THEN Json("str", Inner(s), <<>>, <<>>)
    ELSE JsonBad

IsJsonMember(m) ==
    LET kv == Split(m, ":") IN
    /\ Len(kv) = 2
    /\ IsJsonString(kv[1])
    /\ ParseJsonScalar(kv[2]).k # "bad"

\* serde_json::from_str
ParseJson(s) ==
    IF ParseJsonScalar(s).k # "bad" THEN ParseJsonScalar(s)
    ELSE IF Len(s) >= 2 /\ s[1] = "[" /\ s[Len(s)] = "]"
    THEN LET parts == IF Inner(s) = <<>> THEN <<>> ELSE Split(Inner(s), ",")
             items == [i \in 1..Len(parts) |-> ParseJsonScalar(parts[i])]
         IN  IF \A i \in 1..Len(items) : items[i].k # "bad"
             THEN Json("arr", s, items, <<>>)
             ELSE JsonBad
    ELSE IF Len(s) >= 2 /\ s[1] = "{" /\ s[Len(s)] = "}"
    THEN LET parts == IF Inner(s) = <<>> THEN <<>> ELSE Split(Inner(s), ",")
         IN  IF \A i \in 1..Len(parts) : IsJsonMember(parts[i])
             THEN Json("obj", s,
                       [i \in 1..Len(parts) |->
                           ParseJsonScalar(Split(parts[i], ":")[2])],
                       [i \in 1..Len(parts) |-> Inner(Split(parts[i], ":")[1])])
             ELSE JsonBad
    ELSE JsonBad

\* DynVal::as_json_value
IsJson(v) == ParseJson(v.s).k # "bad"

AsJsonValue(v) == ParseJson(v.s)

\* DynVal::from(&serde_json::Value): a string gives its content, any other
\* value its serialization (the text it was parsed from, which is compact
\* and, for the numbers generated, canonical)
FromJson(j) == DynVal(j.text, NoSpan)

\* i32::to_string
FmtI32(n) ==
    LET m == 0 - (n + 1)
        rest == (m \div 10) + (IF (m % 10) = 9 THEN 1 ELSE 0)
    IN  IF n >= 0 THEN FmtNat(n)
        \* the digits of m + 1, the magnitude of n
        ELSE <<"-">> \o (IF rest = 0 THEN <<>> ELSE FmtNat(rest))
                    \o <<Digits[((((m % 10) + 1) % 10)) + 1]>>

\* a faulty cast: the magnitude of the index (i.unsigned_abs())
AsUsizeAbs(i) ==
    IF i < 0 THEN [top |-> FALSE, off |-> 0 - i] ELSE [top |-> FALSE, off |-> i]

\* `index as usize`: the i32 is sign-extended to 64 bits and reinterpreted,
\* so a negative i becomes 2^64 + i.  A usize is kept as an offset from 0
\* (top = FALSE, the value off) or down from the largest usize (top = TRUE,
\* the value 2^64 - 1 - off).
AsUsize(i) ==
    IF i < 0 THEN [top |-> TRUE, off |-> 0 - (i + 1)] ELSE [top |-> FALSE, off |-> i]

\* idx < len for a slice length len, which is below 2^63
UsizeLt(idx, len) == ~idx.top /\ idx.off < len

\* <[Value]>::get(idx).unwrap_or(&Value::Null)
ArrayGet(items, idx) ==
    IF UsizeLt(idx, Len(items)) THEN items[idx.off + 1] ELSE JsonNull

\* serde_json::Map::get(key): 0 when the key is absent, else the position
\* of the member that holds it (the last one written wins)
MapFind(obj, key) ==
    IF \E i \in 1..Len(obj.keys) : obj.keys[i] = key
    THEN CHOOSE i \in 1..Len(obj.keys) :
            obj.keys[i] = key /\ \A j \in (i + 1)..Len(obj.keys) : obj.keys[j] # key
    ELSE 0

-----------------------------------------------------------------------------
(* Regular expressions (the regex crate), for the patterns the model       *)
(* generates: a literal string, optionally enclosed in one capture group.  *)

RegexMeta ==
    {"\\", ".", "+", "*", "?", "(", ")", "|", "[", "]", "{", "}", "^", "$"}

IsLiteralPattern(p) == \A i \in 1..Len(p) : p[i] \notin RegexMeta

IsGroupPattern(p) ==
    /\ Len(p) >= 2
    /\ p[1] = "("
    /\ p[Len(p)] = ")"
    /\ IsLiteralPattern(Inner(p))

\* Regex::new succeeds
RegexValid(p) == IsLiteralPattern(p) \/ IsGroupPattern(p)

\* the compiled pattern: the literal it matches, and whether group 1 exists
RegexNew(p) ==
    IF IsGroupPattern(p) THEN [lit |-> Inner(p), group |-> TRUE]
    ELSE [lit |-> p, group |-> FALSE]

StartsWith(s, w) == Len(w) <= Len(s) /\ SubSeq(s, 1, Len(w)) = w

\* Regex::is_match: the pattern matches somewhere in s
IsMatch(re, s) ==
    \E i \in 0..Len(s) : StartsWith(SubSeq(s, i + 1, Len(s)), re.lit)

CapLetters ==
    {"0", "1", "2", "3", "4", "5", "6", "7", "8", "9", "_",
     "a", "b", "c", "d", "e", "f", "g", "h", "i", "j", "k", "l", "m",
     "n", "o", "p", "q", "r", "s", "t", "u", "v", "w", "x", "y", "z",
     "A", "B", "C", "D", "E", "F", "G", "H", "I", "J", "K", "L", "M",
     "N", "O", "P", "Q", "R", "S", "T", "U", "V", "W", "X", "Y", "Z"}

\* the length of the longest prefix of s made of capture-name letters
RECURSIVE CapNameLen(_)
CapNameLen(s) ==
    IF s # <<>> /\ s[1] \in CapLetters THEN 1 + CapNameLen(Tail(s)) ELSE 0

\* the text of the capture group called `name` in a match of re: group 0
\* is the whole match, group 1 the parenthesised one, no group is named
CapText(re, name) ==
    IF AllDigits(name) /\ ParseNat(name) = 0 THEN re.lit
    ELSE IF AllDigits(name) /\ ParseNat(name) = 1 /\ re.group THEN re.lit
    ELSE <<>>

\* Captures::expand: `$$` is a dollar sign, `$name` and `${name}` are the
\* text of a capture group (empty when there is none), any other `$` is
\* itself
RECURSIVE Expand(_, _)
Expand(tmpl, re) ==
    IF tmpl = <<>> THEN <<>>
    ELSE IF tmpl[1] # "$" THEN <<tmpl[1]>> \o Expand(Tail(tmpl), re)
    ELSE IF Len(tmpl) >= 2 /\ tmpl[2] = "$"
         THEN <<"$">> \o Expand(SubSeq(tmpl, 3, Len(tmpl)), re)
    ELSE IF Len(tmpl) >= 2 /\ tmpl[2] = "{"
         THEN LET close == FirstIndex(tmpl, "}") IN
              IF close = 0 THEN <<"$">> \o Expand(Tail(tmpl), re)
              ELSE CapText(re, SubSeq(tmpl, 3, close - 1))
                   \o Expand(SubSeq(tmpl, close + 1, Len(tmpl)), re)
    ELSE LET n == CapNameLen(Tail(tmpl)) IN
         IF n = 0 THEN <<"$">> \o Expand(Tail(tmpl), re)
         ELSE CapText(re, SubSeq(tmpl, 2, n + 1))
              \o Expand(SubSeq(tmpl, n + 2, Len(tmpl)), re)

\* Regex::replace_all(s, tmpl): every non-overlapping match, leftmost
\* first, is replaced by the expansion of tmpl
RECURSIVE ReplaceAll(_, _, _)
ReplaceAll(re, s, tmpl) ==
    IF re.lit = <<>>
    THEN Expand(tmpl, re)
         \o (IF s = <<>> THEN <<>> ELSE <<s[1]>> \o ReplaceAll(re, Tail(s), tmpl))
    ELSE IF s = <<>> THEN <<>>
    ELSE IF StartsWith(s, re.lit)
         THEN Expand(tmpl, re)
              \o ReplaceAll(re, SubSeq(s, Len(re.lit) + 1, Len(s)), tmpl)
    ELSE <<s[1]>> \o ReplaceAll(re, Tail(s), tmpl)

-----------------------------------------------------------------------------
(* EvalError.  An error is its innermost variant with the spans of the     *)
(* Spanned wrappers around it, outermost first.  A ConversionError holds   *)
(* the value that did not convert (string and span) and the target type.   *)

MkErr(kind, s) ==
    [kind |-> kind, s |-> s, vspan |-> NoSpan, target |-> "", wraps |-> <<>>]

NoErr == MkErr("none", <<>>)

NoVariablesAllowed(name) == MkErr("NoVariablesAllowed", name)

InvalidRegex(pattern) == MkErr("InvalidRegex", pattern)

UnresolvedVariable(name) == MkErr("UnresolvedVariable", name)

ConversionError(v, target) ==
    [kind |-> "ConversionError", s |-> v.s, vspan |-> v.span,
     target |-> target, wraps |-> <<>>]

WrongArgCount(name) == MkErr("WrongArgCount", name)

UnknownFunction(name) == MkErr("UnknownFunction", name)

UnknownVariable(name) == MkErr("UnknownVariable", name)

CannotIndex(s) == MkErr("CannotIndex", s)

\* EvalError::at: Spanned(span, Box::new(self))
ErrAt(e, span) == [e EXCEPT !.wraps = <<span>> \o @]

\* EvalError::span
ErrSpan(e) ==
    IF e.wraps # <<>> THEN e.wraps[1]
    ELSE IF e.kind = "ConversionError" THEN e.vspan
    ELSE NoSpan

\* a panic of the process (no Result is returned)
Panic(what) == MkErr("panic", what)

-----------------------------------------------------------------------------
(* Result<DynVal, EvalError>, with the spans of the nodes whose eval was   *)
(* entered, in order (tr), so that what is and is not evaluated can be     *)
(* stated.                                                                 *)

NoVal == DynVal(<<>>, NoSpan)

Ok(v) == [ok |-> TRUE, val |-> v, err |-> NoErr, tr |-> <<>>]

Err(e) == [ok |-> FALSE, val |-> NoVal, err |-> e, tr |-> <<>>]

WithTr(r, tr) == [r EXCEPT !.tr = tr]

\* the outcome alone: the value or the error, without the trace
Outcome(r) == [ok |-> r.ok, val |-> r.val, err |-> r.err]

-----------------------------------------------------------------------------
(* SimplExpr (crate::ast).                                                 *)

Literal(span, x) == [node |-> "Literal", span |-> span, val |-> x]

VarRef(span, name) == [node |-> "VarRef", span |-> span, name |-> name]

BinOp(span, a, op, b) ==
    [node |-> "BinOp", span |-> span, a |-> a, op |-> op, b |-> b]

UnaryOp(span, op, a) == [node |-> "UnaryOp", span |-> span, op |-> op, a |-> a]

IfElse(span, a, b, c) ==
    [node |-> "IfElse", span |-> span, a |-> a, b |-> b, c |-> c]

JsonAccess(span, a, b) == [node |-> "JsonAccess", span |-> span, a |-> a, b |-> b]

FunctionCall(span, name, args) ==
    [node |-> "FunctionCall", span |-> span, name |-> name, args |-> args]

BinOps ==
    {"Equals", "NotEquals", "And", "Or", "Plus", "Minus", "Times", "Div",
     "Mod", "GT", "LT", "Elvis", "RegexMatch"}

\* HashMap::get(name).is_some()
Bound(values, name) == name \in DOMAIN values

-----------------------------------------------------------------------------
(* The transformations a caller passes to map_terminals_into.              *)

Transforms == {"negate", "blank"}

\* f(x) for the transformation called f
ApplyF(f, x) ==
    IF f = "negate" THEN UnaryOp(x.span, "Not", x)
    ELSE Literal(x.span, DynVal(<<>>, NoSpan))

\* SimplExpr::map_terminals_into
MapTerminalsInto(e, f) ==
    CASE e.node = "BinOp" ->
            BinOp(e.span, ApplyF(f, e.a), e.op, ApplyF(f, e.b))
      [] e.node = "UnaryOp" -> UnaryOp(e.span, e.op, ApplyF(f, e.a))
      [] e.node = "IfElse" ->
            IfElse(e.span, ApplyF(f, e.a), ApplyF(f, e.b), ApplyF(f, e.c))
      [] e.node = "JsonAccess" ->
            JsonAccess(e.span, ApplyF(f, e.a), ApplyF(f, e.b))
      [] e.node = "FunctionCall" ->
            FunctionCall(e.span, e.name,
                         [i \in 1..Len(e.args) |-> ApplyF(f, e.args[i])])
      [] OTHER -> ApplyF(f, e)

-----------------------------------------------------------------------------
(* resolve_refs: Result<SimplExpr, EvalError>.                             *)

NoTree == Literal(NoSpan, NoVal)

OkTree(e) == [ok |-> TRUE, tree |-> e, err |-> NoErr]

ErrTree(err) == [ok |-> FALSE, tree |-> NoTree, err |-> err]

\* a faulty VarRef arm: the literal holds the variable's name, not its value
ResolveVarRefByName(span, name, variables) ==
    IF Bound(variables, name)
    THEN OkTree(Literal(span, DynVal(name, NoSpan)))
    ELSE ErrTree(ErrAt(UnknownVariable(name), span))

\* the VarRef arm of resolve_refs
ResolveVarRef(span, name, variables) ==
    IF Bound(variables, name)
    THEN OkTree(Literal(span, variables[name]))
    ELSE ErrTree(ErrAt(UnknownVariable(name), span))

\* the first error of a sequence of results, in order (each `?` of a
\* constructor's operands, and collect::<Result<_, _>>())
FirstErr(rs) ==
    IF \E i \in 1..Len(rs) : ~rs[i].ok
    THEN rs[CHOOSE i \in 1..Len(rs) :
                ~rs[i].ok /\ \A j \in 1..(i - 1) : rs[j].ok].err
    ELSE NoErr

\* SimplExpr::resolve_refs
RECURSIVE ResolveRefs(_, _)
ResolveRefs(e, variables) ==
    IF e.node = "Literal" THEN OkTree(Literal(e.span, e.val))
    ELSE IF e.node = "VarRef" THEN ResolveVarRef(e.span, e.name, variables)
    ELSE IF e.node = "BinOp"
    THEN LET rs == <<ResolveRefs(e.a, variables), ResolveRefs(e.b, variables)>> IN
         IF FirstErr(rs) # NoErr THEN ErrTree(FirstErr(rs))
         ELSE OkTree(BinOp(e.span, rs[1].tree, e.op, rs[2].tree))
    ELSE IF e.node = "UnaryOp"
    THEN LET r == ResolveRefs(e.a, variables) IN
         IF ~r.ok THEN r ELSE OkTree(UnaryOp(e.span, e.op, r.tree))
    ELSE IF e.node = "IfElse"
    THEN LET rs == <<ResolveRefs(e.a, variables), ResolveRefs(e.b, variables),
                     ResolveRefs(e.c, variables)>> IN
         IF FirstErr(rs) # NoErr THEN ErrTree(FirstErr(rs))
         ELSE OkTree(IfElse(e.span, rs[1].tree, rs[2].tree, rs[3].tree))
    ELSE IF e.node = "JsonAccess"
    THEN LET rs == <<ResolveRefs(e.a, variables), ResolveRefs(e.b, variables)>> IN
         IF FirstErr(rs) # NoErr THEN ErrTree(FirstErr(rs))
         ELSE OkTree(JsonAccess(e.span, rs[1].tree, rs[2].tree))
    ELSE LET rs == [i \in 1..Len(e.args) |-> ResolveRefs(e.args[i], variables)] IN
         IF FirstErr(rs) # NoErr THEN ErrTree(FirstErr(rs))
         ELSE OkTree(FunctionCall(e.span, e.name,
                                  [i \in 1..Len(rs) |-> rs[i].tree]))

\* SimplExpr::var_refs
RECURSIVE VarRefs(_)
VarRefs(e) ==
    IF e.node = "Literal" THEN <<>>
    ELSE IF e.node = "VarRef" THEN <<e.name>>
    ELSE IF e.node \in {"BinOp", "JsonAccess"} THEN VarRefs(e.a) \o VarRefs(e.b)
    ELSE IF e.node = "UnaryOp" THEN VarRefs(e.a)
    ELSE IF e.node = "IfElse" THEN VarRefs(e.a) \o VarRefs(e.b) \o VarRefs(e.c)
    ELSE LET RECURSIVE Flat(_)
             Flat(args) == IF args = <<>> THEN <<>>
                           ELSE VarRefs(Head(args)) \o Flat(Tail(args))
         IN  Flat(e.args)

-----------------------------------------------------------------------------
(* call_expr_function: the built-in functions.                             *)

\* the "round" arm
CallRound(name, args) ==
    IF Len(args) # 2 THEN Err(WrongArgCount(name))
    ELSE IF ~IsF64(args[1]) THEN Err(ConversionError(args[1], "f64"))
    ELSE IF ~IsI32(args[2]) THEN Err(ConversionError(args[2], "i32"))
    ELSE IF AsUsize(AsI32(args[2])).top
         \* a precision of 2^64 - k digits: the formatting cannot finish
         THEN Err(Panic(S_round))
    ELSE Ok(FromString(FmtFixed(AsF64(args[1]), AsUsize(AsI32(args[2])).off)))

\* a faulty escape: the dollar signs are not doubled
EscapeBackslashOnly(replacement) == StrReplaceChar(replacement, "\\", <<"$">>)

\* replacement.replace("$", "$$").replace("\\", "$")
EscapeReplacement(replacement) ==
    StrReplaceChar(StrReplaceChar(replacement, "$", <<"$", "$">>), "\\", <<"$">>)

\* the "replace" arm
CallReplace(name, args) ==
    IF Len(args) # 3 THEN Err(WrongArgCount(name))
    ELSE IF ~RegexValid(AsString(args[2])) THEN Err(InvalidRegex(AsString(args[2])))
    ELSE Ok(FromString(ReplaceAll(RegexNew(AsString(args[2])), AsString(args[1]),
                                  EscapeReplacement(AsString(args[3])))))

\* call_expr_function
CallExprFunction(name, args) ==
    IF name = S_round THEN CallRound(name, args)
    ELSE IF name = S_replace THEN CallReplace(name, args)
    ELSE Err(UnknownFunction(name))

-----------------------------------------------------------------------------
(* eval.                                                                   *)

\* the VarRef arm
EvalVarRef(span, name, values) ==
    IF Bound(values, name) THEN Ok(At(values[name], span))
    ELSE Err(ErrAt(UnresolvedVariable(name), span))

\* a faulty And: both operands are coerced before they are combined
EvalAndStrict(a, b) ==
    IF ~IsBool(a) THEN Err(ConversionError(a, "bool"))
    ELSE IF ~IsBool(b) THEN Err(ConversionError(b, "bool"))
    ELSE Ok(FromBool(AsBool(a) /\ AsBool(b)))

\* a.as_bool()? && b.as_bool()?
EvalAnd(a, b) ==
    IF ~IsBool(a) THEN Err(ConversionError(a, "bool"))
    ELSE IF ~AsBool(a) THEN Ok(FromBool(FALSE))
    ELSE IF ~IsBool(b) THEN Err(ConversionError(b, "bool"))
    ELSE Ok(FromBool(AsBool(b)))

\* a.as_bool()? || b.as_bool()?
EvalOr(a, b) ==
    IF ~IsBool(a) THEN Err(ConversionError(a, "bool"))
    ELSE IF AsBool(a) THEN Ok(FromBool(TRUE))
    ELSE IF ~IsBool(b) THEN Err(ConversionError(b, "bool"))
    ELSE Ok(FromBool(AsBool(b)))

\* match a.as_f64() { Ok(num) => num + b.as_f64()?, Err(_) => format!(..) }
EvalPlus(a, b) ==
    IF IsF64(a)
    THEN (IF ~IsF64(b) THEN Err(ConversionError(b, "f64"))
          ELSE Ok(FromF64(F64Add(AsF64(a), AsF64(b)))))
    ELSE Ok(FromString(AsString(a) \o AsString(b)))

\* a.as_f64()? and then b.as_f64()?: the failure, if any
F64Operands(a, b) ==
    IF ~IsF64(a) THEN Err(ConversionError(a, "f64"))
    ELSE IF ~IsF64(b) THEN Err(ConversionError(b, "f64"))
    ELSE Ok(NoVal)

\* the RegexMatch arm
EvalRegexMatch(a, b) ==
    IF ~RegexValid(AsString(b)) THEN Err(InvalidRegex(AsString(b)))
    ELSE Ok(FromBool(IsMatch(RegexNew(AsString(b)), AsString(a))))

\* `match op { ... }` on the two operand values
ApplyBinOp(op, a, b) ==
    CASE op = "Equals" -> Ok(FromBool(DynEq(a, b)))
      [] op = "NotEquals" -> Ok(FromBool(~DynEq(a, b)))
      [] op = "And" -> EvalAnd(a, b)
      [] op = "Or" -> EvalOr(a, b)
      [] op = "Plus" -> EvalPlus(a, b)
      [] op = "Elvis" -> Ok(IF a.s = <<>> THEN b ELSE a)
      [] op = "RegexMatch" -> EvalRegexMatch(a, b)
      [] OTHER ->
            IF ~F64Operands(a, b).ok THEN F64Operands(a, b)
            ELSE LET x == AsF64(a)
                     y == AsF64(b)
                 IN  CASE op = "Minus" -> Ok(FromF64(F64Sub(x, y)))
                       [] op = "Times" -> Ok(FromF64(F64Mul(x, y)))
                       [] op = "Div" -> Ok(FromF64(F64Div(x, y)))
                       [] op = "Mod" -> Ok(FromF64(F64Rem(x, y)))
                       [] op = "GT" -> Ok(FromBool(F64Lt(y, x)))
                       [] op = "LT" -> Ok(FromBool(F64Lt(x, y)))

\* a faulty operand order: b is evaluated, and its failure returned, first
Then2RightFirst(ra, rb) ==
    IF ~rb.ok THEN [ok |-> FALSE, vals |-> <<>>, err |-> rb.err, tr |-> rb.tr]
    ELSE IF ~ra.ok
    THEN [ok |-> FALSE, vals |-> <<>>, err |-> ra.err, tr |-> rb.tr \o ra.tr]
    ELSE [ok |-> TRUE, vals |-> <<ra.val, rb.val>>, err |-> NoErr,
          tr |-> rb.tr \o ra.tr]

\* `let a = a.eval(values)?; let b = b.eval(values)?;`: both values, or the
\* first failure; b is not evaluated when a fails
Then2(ra, rb) ==
    IF ~ra.ok THEN [ok |-> FALSE, vals |-> <<>>, err |-> ra.err, tr |-> ra.tr]
    ELSE IF ~rb.ok
    THEN [ok |-> FALSE, vals |-> <<>>, err |-> rb.err, tr |-> ra.tr \o rb.tr]
    ELSE [ok |-> TRUE, vals |-> <<ra.val, rb.val>>, err |-> NoErr,
          tr |-> ra.tr \o rb.tr]

\* the BinOp arm, given the outcome of evaluating the operands
EvalBinOp(op, ab) ==
    IF ~ab.ok THEN WithTr(Err(ab.err), ab.tr)
    ELSE WithTr(ApplyBinOp(op, ab.vals[1], ab.vals[2]), ab.tr)

\* the UnaryOp arm, given the outcome of evaluating the operand
EvalUnaryOp(op, ra) ==
    IF ~ra.ok THEN ra
    ELSE IF ~IsBool(ra.val) THEN WithTr(Err(ConversionError(ra.val, "bool")), ra.tr)
    ELSE WithTr(Ok(FromBool(~AsBool(ra.val))), ra.tr)

\* a faulty IfElse arm: both branches are evaluated before one is chosen
EvalIfElseEager(rc, ryes, rno) ==
    IF ~rc.ok THEN rc
    ELSE IF ~ryes.ok THEN WithTr(ryes, rc.tr \o ryes.tr)
    ELSE IF ~rno.ok THEN WithTr(rno, rc.tr \o ryes.tr \o rno.tr)
    ELSE IF ~IsBool(rc.val)
         THEN WithTr(Err(ConversionError(rc.val, "bool")), rc.tr \o ryes.tr \o rno.tr)
    ELSE IF AsBool(rc.val) THEN WithTr(ryes, rc.tr \o ryes.tr \o rno.tr)
    ELSE WithTr(rno, rc.tr \o ryes.tr \o rno.tr)

\* the IfElse arm, given the outcome of evaluating the condition and what
\* evaluating each branch gives; only the chosen branch is evaluated
EvalIfElse(rc, ryes, rno) ==
    IF ~rc.ok THEN rc
    ELSE IF ~IsBool(rc.val) THEN WithTr(Err(ConversionError(rc.val, "bool")), rc.tr)
    ELSE IF AsBool(rc.val) THEN WithTr(ryes, rc.tr \o ryes.tr)
    ELSE WithTr(rno, rc.tr \o rno.tr)

\* the Array case of the JsonAccess arm
IndexArray(items, index) ==
    IF ~IsI32(index) THEN Err(ConversionError(index, "i32"))
    ELSE Ok(FromJson(ArrayGet(items, AsUsize(AsI32(index)))))

\* the Object case of the JsonAccess arm
IndexObject(obj, index) ==
    LET byString == MapFind(obj, AsString(index))
        byNumber == IF IsI32(index) THEN MapFind(obj, FmtI32(AsI32(index))) ELSE 0
    IN  IF byString # 0 THEN Ok(FromJson(obj.items[byString]))
        ELSE IF byNumber # 0 THEN Ok(FromJson(obj.items[byNumber]))
        ELSE Ok(FromJson(JsonNull))

\* the JsonAccess arm, given the outcome of evaluating container and index
EvalJsonAccess(span, ab) ==
    IF ~ab.ok THEN WithTr(Err(ab.err), ab.tr)
    ELSE LET val == ab.vals[1]
             index == ab.vals[2]
         IN  WithTr(IF ~IsJson(val) THEN Err(ConversionError(val, "json-value"))
                    ELSE IF AsJsonValue(val).k = "arr"
                         THEN IndexArray(AsJsonValue(val).items, index)
                    ELSE IF AsJsonValue(val).k = "obj"
                         THEN IndexObject(AsJsonValue(val), index)
                    ELSE Err(ErrAt(CannotIndex(val.s), span)),
                    ab.tr)

\* the FunctionCall arm, given the outcome of evaluating the arguments
EvalFunctionCall(span, name, rargs) ==
    IF ~rargs.ok THEN WithTr(Err(rargs.err), rargs.tr)
    ELSE LET r == CallExprFunction(name, rargs.vals) IN
         WithTr(IF r.ok THEN r ELSE Err(ErrAt(r.err, span)), rargs.tr)

\* `Ok(value?.at(span))`, and the node joins the trace
Finish(span, r) ==
    IF r.ok THEN [r EXCEPT !.val = At(@, span), !.tr = <<span>> \o @]
    ELSE [r EXCEPT !.tr = <<span>> \o @]

\* the outcome of one more argument after those before it: collect() stops
\* at the first failure
ThenArg(rest, r) ==
    IF ~rest.ok THEN rest
    ELSE IF ~r.ok
    THEN [ok |-> FALSE, vals |-> <<>>, err |-> r.err, tr |-> rest.tr \o r.tr]
    ELSE [ok |-> TRUE, vals |-> Append(rest.vals, r.val), err |-> NoErr,
          tr |-> rest.tr \o r.tr]

\* SimplExpr::eval
RECURSIVE Eval(_, _)
Eval(e, values) ==
    LET RECURSIVE EvalArgs(_)
        \* args.into_iter().map(|a| a.eval(values)).collect::<Result<_, _>>()
        EvalArgs(n) ==
            IF n = 0 THEN [ok |-> TRUE, vals |-> <<>>, err |-> NoErr, tr |-> <<>>]
            ELSE ThenArg(EvalArgs(n - 1), Eval(e.args[n], values))
    IN
    Finish(e.span,
        CASE e.node = "Literal" -> Ok(e.val)
          [] e.node = "VarRef" -> EvalVarRef(e.span, e.name, values)
          [] e.node = "BinOp" ->
                EvalBinOp(e.op, Then2(Eval(e.a, values), Eval(e.b, values)))
          [] e.node = "UnaryOp" -> EvalUnaryOp(e.op, Eval(e.a, values))
          [] e.node = "IfElse" ->
                EvalIfElse(Eval(e.a, values), Eval(e.b, values), Eval(e.c, values))
          [] e.node = "JsonAccess" ->
                EvalJsonAccess(e.span, Then2(Eval(e.a, values), Eval(e.b, values)))
          [] e.node = "FunctionCall" ->
                EvalFunctionCall(e.span, e.name, EvalArgs(Len(e.args))))

\* HashMap::new()
EmptyEnv == [n \in {} |-> NoVal]

\* the match of eval_no_vars on the result of eval
RemapNoVars(r) ==
    IF ~r.ok /\ r.err.kind = "UnknownVariable" /\ r.err.wraps = <<>>
    THEN [r EXCEPT !.err = NoVariablesAllowed(r.err.s)]
    ELSE r

\* SimplExpr::eval_no_vars
EvalNoVars(e) == RemapNoVars(Eval(e, EmptyEnv))

-----------------------------------------------------------------------------
(* The expressions, environments and host function sources the model       *)
(* starts from.  The root has span 1 and a node's i-th child the span      *)
(* 10 * parent + i, so every node of a tree has a span of its own.         *)

ChildSpan(p, i) == 10 * p + i

X == <<"x">>
Y == <<"y">>

S_a == <<"a">>
S_aba == <<"a", "b", "a">>
S_array == <<"[", "1", "0", ",", "2", "0", "]">>
S_object ==
    <<"{", "\"", "a", "\"", ":", "1", ",", "\"", "1", "\"", ":", "t", "r", "u", "e", "}">>

\* the integers -MaxIndex .. MaxIndex as strings
IndexStrings == {FmtI32(i) : i \in (0 - MaxIndex)..MaxIndex}

CoreStrings == {S_true, S_false, <<"0">>, <<"1">>, <<"2">>, <<"-", "1">>, S_a, <<>>}

Lits(strings, sp) == {Literal(sp, DynVal(s, NoSpan)) : s \in strings}

Vars(sp) == {VarRef(sp, X), VarRef(sp, Y)}

CoreLeaves(sp) == Lits(CoreStrings, sp) \cup Vars(sp)

SmallLeaves(sp) == Lits({S_true, <<"1">>, S_a}, sp) \cup {VarRef(sp, Y)}

\* patterns: literals, a capture group, and two that do not compile
PatternStrings == {S_a, <<"1">>, <<"(", "a", ")">>, <<"(">>, <<"\\", "1">>}

\* every string over `alphabet` of length at most n
RECURSIVE Strings(_, _)
Strings(alphabet, n) ==
    IF n = 0 THEN {<<>>}
    ELSE LET shorter == Strings(alphabet, n - 1) IN
         shorter \cup {Append(s, c) : s \in shorter, c \in alphabet}

\* every argument list of length at most n whose i-th argument is a member
\* of leaves(ChildSpan(sp, i))
RECURSIVE ArgLists(_, _, _)
ArgLists(leaves(_), sp, n) ==
    IF n = 0 THEN {<<>>}
    ELSE LET shorter == ArgLists(leaves, sp, n - 1) IN
         shorter \cup {Append(as, l) : as \in {s \in shorter : Len(s) = n - 1},
                                        l \in leaves(ChildSpan(sp, n))}

ArgLeaves(sp) == Lits({<<"1">>, S_a}, sp) \cup {VarRef(sp, X), VarRef(sp, Y)}

FunctionNames == {S_round, S_replace, <<"h">>, <<"g">>}

\* a node over leaves
Shallow(sp) ==
    {BinOp(sp, a, op, b) : a \in CoreLeaves(ChildSpan(sp, 1)),
                           op \in BinOps \ {"RegexMatch"},
                           b \in CoreLeaves(ChildSpan(sp, 2))}
    \cup {BinOp(sp, a, "RegexMatch", b) :
            a \in CoreLeaves(ChildSpan(sp, 1)),
            b \in Lits(PatternStrings, ChildSpan(sp, 2)) \cup Vars(ChildSpan(sp, 2))}
    \cup {UnaryOp(sp, "Not", a) : a \in CoreLeaves(ChildSpan(sp, 1))}
    \cup {IfElse(sp, a, b, c) : a \in CoreLeaves(ChildSpan(sp, 1)),
                                b \in SmallLeaves(ChildSpan(sp, 2)),
                                c \in SmallLeaves(ChildSpan(sp, 3))}
    \cup {JsonAccess(sp, a, b) :
            a \in Lits({S_array, S_object, <<"[", "]">>, <<"1">>, S_a}, ChildSpan(sp, 1))
                  \cup Vars(ChildSpan(sp, 1)),
            b \in Lits(IndexStrings \cup {S_a}, ChildSpan(sp, 2))
                  \cup Vars(ChildSpan(sp, 2))}
    \cup {FunctionCall(sp, name, args) :
            name \in FunctionNames, args \in ArgLists(ArgLeaves, sp, MaxArgs)}
    \cup {FunctionCall(sp, S_replace,
                       <<Literal(ChildSpan(sp, 1), DynVal(S_aba, NoSpan)), p, r>>) :
            p \in Lits(PatternStrings, ChildSpan(sp, 2)),
            r \in Lits(Strings({"$", "\\", "1", "b"}, MaxRepLen), ChildSpan(sp, 3))}

\* a small node over leaves, to nest
Small(sp) ==
    SmallLeaves(sp)
    \cup {BinOp(sp, a, op, b) : a \in SmallLeaves(ChildSpan(sp, 1)),
                                op \in {"Plus", "And"},
                                b \in SmallLeaves(ChildSpan(sp, 2))}
    \cup {IfElse(sp, a, b, c) : a \in Lits({S_true, S_false}, ChildSpan(sp, 1)),
                                b \in Lits({<<"1">>}, ChildSpan(sp, 2)) \cup Vars(ChildSpan(sp, 2)),
                                c \in Lits({S_a}, ChildSpan(sp, 3)) \cup Vars(ChildSpan(sp, 3))}
    \cup {FunctionCall(sp, name, <<a>>) : name \in {S_round, <<"g">>},
                                          a \in SmallLeaves(ChildSpan(sp, 1))}

\* fewer of them, for the right operand of a nested BinOp
Few(sp) == {e \in Small(sp) : e.node \in {"Literal", "VarRef", "IfElse"}}

\* a node over small nodes
Nested(sp) ==
    {BinOp(sp, a, op, b) : a \in Small(ChildSpan(sp, 1)),
                           op \in {"Plus", "Or"},
                           b \in Few(ChildSpan(sp, 2))}
    \cup {UnaryOp(sp, "Not", a) : a \in Small(ChildSpan(sp, 1))}
    \cup {IfElse(sp, a, b, c) : a \in Lits({S_true, S_false}, ChildSpan(sp, 1)),
                                b \in Small(ChildSpan(sp, 2)),
                                c \in SmallLeaves(ChildSpan(sp, 3))}
    \cup {JsonAccess(sp, a, b) : a \in Small(ChildSpan(sp, 1)),
                                 b \in SmallLeaves(ChildSpan(sp, 2))}
    \cup {FunctionCall(sp, name, <<a, b>>) :
            name \in {S_round, <<"g">>},
            a \in SmallLeaves(ChildSpan(sp, 1)),
            b \in Small(ChildSpan(sp, 2))}

Exprs == CoreLeaves(1) \cup Shallow(1) \cup Nested(1)

\* the binding maps: none, x alone, x and y
Envs ==
    {EmptyEnv,
     [n \in {X} |-> DynVal(S_true, 0)],
     [n \in {X, Y} |-> IF n = X THEN DynVal(<<"1">>, 0) ELSE DynVal(S_a, 0)]}

\* the names the host's implementation of FunctionSource provides
HostFunctions == {<<"h">>}

-----------------------------------------------------------------------------
(* The state machine: a caller holds a tree, a binding map and a function  *)
(* source, and calls one of the tree's operations.                         *)

NoResult == Err(NoErr)

Init ==
    /\ expr \in Exprs
    /\ env \in Envs
    /\ fnSource = HostFunctions
    /\ pc = "start"
    /\ value = NoResult
    /\ tree = ErrTree(NoErr)
    /\ refs = <<>>
    /\ fsel = "none"

\* expr.eval(&env)
DoEval ==
    /\ pc = "start"
    /\ value' = Eval(expr, env)
    /\ pc' = "eval"
    /\ UNCHANGED <<expr, env, fnSource, tree, refs, fsel>>

\* expr.eval_no_vars()
DoEvalNoVars ==
    /\ pc = "start"
    /\ value' = EvalNoVars(expr)
    /\ pc' = "eval_no_vars"
    /\ UNCHANGED <<expr, env, fnSource, tree, refs, fsel>>

\* expr.resolve_refs(&env)
DoResolveRefs ==
    /\ pc = "start"
    /\ tree' = ResolveRefs(expr, env)
    /\ pc' = "resolved"
    /\ UNCHANGED <<expr, env, fnSource, value, refs, fsel>>

\* resolved.eval_no_vars(), after a resolve_refs that succeeded
DoEvalResolved ==
    /\ pc = "resolved"
    /\ tree.ok
    /\ value' = EvalNoVars(tree.tree)
    /\ pc' = "resolved_eval"
    /\ UNCHANGED <<expr, env, fnSource, tree, refs, fsel>>

\* expr.map_terminals_into(f)
DoMapTerminals ==
    /\ pc = "start"
    /\ \E f \in Transforms :
          /\ tree' = OkTree(MapTerminalsInto(expr, f))
          /\ fsel' = f
    /\ pc' = "mapped"
    /\ UNCHANGED <<expr, env, fnSource, value, refs>>

\* expr.var_refs()
DoVarRefs ==
    /\ pc = "start"
    /\ refs' = VarRefs(expr)
    /\ pc' = "var_refs"
    /\ UNCHANGED <<expr, env, fnSource, value, tree, fsel>>

Next ==
    \/ DoEval
    \/ DoEvalNoVars
    \/ DoResolveRefs
    \/ DoEvalResolved
    \/ DoMapTerminals
    \/ DoVarRefs

Spec == Init /\ [][Next]_vars

-----------------------------------------------------------------------------
(* What the properties below speak of.                                     *)

\* every variable name occurring in e is bound by m
AllBound(e, m) == \A i \in 1..Len(VarRefs(e)) : VarRefs(e)[i] \in DOMAIN m

\* the outcome of evaluating the two operands of the BinOp or JsonAccess
\* that the caller evaluated
LeftOperand == Eval(expr.a, env)

RightOperand == Eval(expr.b, env)

OperandsOk ==
    /\ pc = "eval"
    /\ expr.node \in {"BinOp", "JsonAccess"}
    /\ LeftOperand.ok
    /\ RightOperand.ok

BoolString(b) == IF b THEN S_true ELSE S_false

\* the outcome of evaluating each argument of the FunctionCall
ArgOutcomes == [i \in 1..Len(expr.args) |-> Eval(expr.args[i], env)]

ArgsOk ==
    /\ pc = "eval"
    /\ expr.node = "FunctionCall"
    /\ \A i \in 1..Len(expr.args) : ArgOutcomes[i].ok

\* a call replace(subject, pattern, replacement) whose pattern compiles
ReplaceCall ==
    /\ ArgsOk
    /\ expr.name = S_replace
    /\ Len(expr.args) = 3
    /\ RegexValid(ArgOutcomes[2].val.s)

Subject == ArgOutcomes[1].val.s

Pattern == RegexNew(ArgOutcomes[2].val.s)

Replacement == ArgOutcomes[3].val.s

Has(s, c) == \E i \in 1..Len(s) : s[i] = c

\* s with every match of re replaced by the text `with`, taken literally
RECURSIVE SubstAll(_, _, _)
SubstAll(re, s, with) ==
    IF re.lit = <<>>
    THEN with \o (IF s = <<>> THEN <<>> ELSE <<s[1]>> \o SubstAll(re, Tail(s), with))
    ELSE IF s = <<>> THEN <<>>
    ELSE IF StartsWith(s, re.lit)
         THEN with \o SubstAll(re, SubSeq(s, Len(re.lit) + 1, Len(s)), with)
    ELSE <<s[1]>> \o SubstAll(re, Tail(s), with)

\* f applied to every Literal and VarRef leaf of e, and to nothing else
RECURSIVE MapLeaves(_, _)
MapLeaves(e, f) ==
    CASE e.node = "BinOp" -> BinOp(e.span, MapLeaves(e.a, f), e.op, MapLeaves(e.b, f))
      [] e.node = "UnaryOp" -> UnaryOp(e.span, e.op, MapLeaves(e.a, f))
      [] e.node = "IfElse" ->
            IfElse(e.span, MapLeaves(e.a, f), MapLeaves(e.b, f), MapLeaves(e.c, f))
      [] e.node = "JsonAccess" -> JsonAccess(e.span, MapLeaves(e.a, f), MapLeaves(e.b, f))
      [] e.node = "FunctionCall" ->
            FunctionCall(e.span, e.name,
                         [i \in 1..Len(e.args) |-> MapLeaves(e.args[i], f)])
      [] OTHER -> ApplyF(f, e)

\* the children of node n that eval evaluates, in order, when each one
\* before the last succeeds
Evaluated(n) ==
    CASE n.node \in {"BinOp", "JsonAccess"} -> <<n.a, n.b>>
      [] n.node = "UnaryOp" -> <<n.a>>
      [] n.node = "IfElse" ->
            LET rc == Eval(n.a, env) IN
            IF ~rc.ok \/ ~IsBool(rc.val) THEN <<n.a>>
            ELSE IF AsBool(rc.val) THEN <<n.a, n.b>>
            ELSE <<n.a, n.c>>
      [] n.node = "FunctionCall" -> n.args
      [] OTHER -> <<>>

RECURSIVE Concat(_, _)
\* the traces of the first k outcomes, one after the other
Concat(rs, k) == IF k = 0 THEN <<>> ELSE Concat(rs, k - 1) \o rs[k].tr

\* r is what node n gives: when a child of n fails, r is the failure of the
\* first such child, unchanged, and no child after it was evaluated
FirstFailure(n, r) ==
    LET cs == Evaluated(n)
        rs == [i \in 1..Len(cs) |-> Eval(cs[i], env)]
    IN  (\E i \in 1..Len(cs) : ~rs[i].ok) =>
            LET k == CHOOSE i \in 1..Len(cs) :
                        ~rs[i].ok /\ \A j \in 1..(i - 1) : rs[j].ok
            IN  /\ ~r.ok
                /\ r.err = rs[k].err
                /\ r.tr = <<n.span>> \o Concat(rs, k)

-----------------------------------------------------------------------------
(* The properties.                                                         *)

\* C1: when the binding map binds every variable of the tree, resolve_refs
\* succeeds, and eval_no_vars of the resolved tree has the outcome (the
\* same value, or the same error) of eval of the tree under that map.
C1_ResolveThenEval ==
    /\ (pc = "resolved" /\ AllBound(expr, env)) => tree.ok
    /\ (pc = "resolved_eval" /\ AllBound(expr, env)) =>
            Outcome(value) = Outcome(Eval(expr, env))

\* a tree with a bound variable below its root was resolved and evaluated
C1_Witness ==
    /\ pc = "resolved_eval"
    /\ AllBound(expr, env)
    /\ VarRefs(expr) # <<>>
    /\ expr.node # "VarRef"
    /\ value.ok

\* C2: when the evaluation behind eval_no_vars fails on a variable
\* reference that cannot be resolved, eval_no_vars returns
\* NoVariablesAllowed with that variable's name.
C2_NoVariablesAllowed ==
    (/\ pc = "eval_no_vars"
     /\ ~Eval(expr, EmptyEnv).ok
     /\ Eval(expr, EmptyEnv).err.kind \in {"UnresolvedVariable", "UnknownVariable"})
    => /\ ~value.ok
       /\ value.err.kind = "NoVariablesAllowed"
       /\ value.err.s = Eval(expr, EmptyEnv).err.s

\* C3: a Plus whose operands evaluate to a and b gives their sum when both
\* are numbers and otherwise the concatenation of their strings; it does
\* not fail.
C3_PlusDispatch ==
    (OperandsOk /\ expr.node = "BinOp" /\ expr.op = "Plus") =>
        LET a == LeftOperand.val
            b == RightOperand.val
        IN  /\ value.ok
            /\ value.val.s = IF IsF64(a) /\ IsF64(b)
                             THEN FmtF64(F64Add(AsF64(a), AsF64(b)))
                             ELSE a.s \o b.s

C5_HostFallThrough ==
    (ArgsOk /\ expr.name \notin {S_round, S_replace}) =>
        IF expr.name \in fnSource
        THEN ~(~value.ok /\ value.err.kind = "UnknownFunction")
        ELSE /\ ~value.ok
             /\ value.err.kind = "UnknownFunction"
             /\ value.err.s = expr.name

\* C6, as claimed: an And or Or whose operands evaluate to a and b fails
\* with a conversion error when either is not a boolean, whatever the
\* other is, and gives their conjunction or disjunction otherwise.
C6_AndOrStrict ==
    (OperandsOk /\ expr.node = "BinOp" /\ expr.op \in {"And", "Or"}) =>
        LET a == LeftOperand.val
            b == RightOperand.val
        IN  IF ~IsBool(a) \/ ~IsBool(b)
            THEN ~value.ok /\ value.err.kind = "ConversionError"
            ELSE /\ value.ok
                 /\ value.val.s = BoolString(IF expr.op = "And"
                                             THEN AsBool(a) /\ AsBool(b)
                                             ELSE AsBool(a) \/ AsBool(b))

\* C6, amended: the And or Or fails with a conversion error when a is not
\* a boolean; when a is one and decides the result (false for And, true
\* for Or) the result is a, whether b is a boolean or not; otherwise it
\* fails with a conversion error when b is not a boolean and gives b when
\* it is.  So whenever both are booleans the result is their conjunction
\* or disjunction.
C6_AndOrShortCircuit ==
    (OperandsOk /\ expr.node = "BinOp" /\ expr.op \in {"And", "Or"}) =>
        LET a == LeftOperand.val
            b == RightOperand.val
            decides == IsBool(a) /\ (AsBool(a) = (expr.op = "Or"))
        IN  IF ~IsBool(a)
            THEN ~value.ok /\ value.err = ConversionError(a, "bool")
            ELSE IF decides
            THEN value.ok /\ value.val.s = a.s
            ELSE IF ~IsBool(b)
            THEN ~value.ok /\ value.err = ConversionError(b, "bool")
            ELSE value.ok /\ value.val.s = b.s

\* an And whose left operand is false and whose right operand is no boolean
\* gave false
C6_Witness ==
    /\ OperandsOk
    /\ expr.node = "BinOp"
    /\ expr.op = "And"
    /\ LeftOperand.val.s = S_false
    /\ ~IsBool(RightOperand.val)
    /\ value.ok
    /\ value.val.s = S_false

\* C7: map_terminals_into(f) keeps the structural nodes and applies f to
\* each Literal and VarRef leaf, at any depth, and to no structural node.
C7_MapTerminals ==
    pc = "mapped" => tree.tree = MapLeaves(expr, fsel)

\* C8: a JsonAccess of an array of length n by an index that is the
\* integer i gives the element at i when 0 <= i < n and null otherwise; it
\* does not fail.
C8_ArrayIndex ==
    (/\ OperandsOk
     /\ expr.node = "JsonAccess"
     /\ IsJson(LeftOperand.val)
     /\ AsJsonValue(LeftOperand.val).k = "arr"
     /\ IsI32(RightOperand.val))
    => LET items == AsJsonValue(LeftOperand.val).items
           i == AsI32(RightOperand.val)
       IN  /\ value.ok
           /\ value.val.s = IF 0 <= i /\ i < Len(items)
                            THEN items[i + 1].text
                            ELSE S_null

\* an array that is not empty was indexed by a negative integer
C8_Witness ==
    /\ OperandsOk
    /\ expr.node = "JsonAccess"
    /\ IsJson(LeftOperand.val)
    /\ AsJsonValue(LeftOperand.val).k = "arr"
    /\ Len(AsJsonValue(LeftOperand.val).items) > 0
    /\ IsI32(RightOperand.val)
    /\ AsI32(RightOperand.val) < 0
    /\ value.ok

\* the branch an IfElse selects, when its condition evaluates to a boolean
Selected == IF AsBool(Eval(expr.a, env).val) THEN expr.b ELSE expr.c

Untaken == IF AsBool(Eval(expr.a, env).val) THEN expr.c ELSE expr.b

CondIsBool ==
    /\ pc = "eval"
    /\ expr.node = "IfElse"
    /\ Eval(expr.a, env).ok
    /\ IsBool(Eval(expr.a, env).val)

\* C9: an IfElse whose condition evaluates to a boolean evaluates the
\* condition and the selected branch and nothing else, and its outcome is
\* that branch's: the same value, or the same error.
C9_IfElseLazy ==
    CondIsBool =>
        LET rc == Eval(expr.a, env)
            rb == Eval(Selected, env)
        IN  /\ value.ok = rb.ok
            /\ value.ok => DynEq(value.val, rb.val)
            /\ ~value.ok => value.err = rb.err
            /\ value.tr = <<expr.span>> \o rc.tr \o rb.tr

\* an IfElse succeeded though evaluating its untaken branch fails
C9_Witness ==
    /\ CondIsBool
    /\ ~Eval(Untaken, env).ok
    /\ value.ok

\* C10: when a child of a node fails, the node returns the error of the
\* first child to fail, in evaluation order, unchanged, and evaluates no
\* child after it; this holds of the root and of each child of the root
\* that was evaluated, so a failure below reaches the caller as it was
\* raised.
C10_FirstFailure ==
    pc = "eval" =>
        /\ FirstFailure(expr, value)
        /\ \A i \in 1..Len(Evaluated(expr)) :
              FirstFailure(Evaluated(expr)[i], Eval(Evaluated(expr)[i], env))

\* both operands of a BinOp fail, differently, the left one because a
\* child of its own fails
C10_Witness ==
    /\ pc = "eval"
    /\ expr.node = "BinOp"
    /\ expr.a.node = "BinOp"
    /\ ~Eval(expr.a.a, env).ok
    /\ ~Eval(expr.b, env).ok
    /\ Eval(expr.a, env).err # Eval(expr.b, env).err
    /\ value.err = Eval(expr.a.a, env).err

=============================================================================
